---- MODULE Spec2Model ----
(***************************************************************************)
(* Model of nutrition_calculator_v2.py: the ingredient catalog, the recipe *)
(* kept in the Streamlit session state, the handlers of the buttons and    *)
(* forms, and the values every script run derives from the recipe          *)
(* (totals, composition declaration, allergen disclosure, export record).  *)
(*                                                                         *)
(* A Python string is the sequence of its Unicode code points, so that     *)
(* lower(), strip(), the `in` substring test and the ordering of sorted()  *)
(* are computed as Python computes them.  The comments give the text.      *)
(* A float entered in a number_input is a natural number of grams (or of   *)
(* the field's unit); a quotient is kept exact as <<numerator,             *)
(* denominator>>.                                                          *)
(***************************************************************************)
EXTENDS Integers, Sequences, FiniteSets, TLC

VARIABLES
    ingredients_db,             \* the DataFrame load_ingredients() returns
    recipe,                     \* st.session_state.recipe
    show_new_ingredient_form,   \* st.session_state.show_new_ingredient_form
    recipe_name,                \* the text of the recipe_name_input widget
    msg,                        \* the message the handler of this run showed
    record,                     \* what the save handler built in this run
    tag,                        \* the argument of a call of extract_allergens
    allergens,                  \* what the call returned
    totals                      \* the values lines 487-503 computed in a run

vars == <<ingredients_db, recipe, show_new_ingredient_form, recipe_name,
          msg, record, tag, allergens, totals>>

-----------------------------------------------------------------------------
(* Bounds of the model.                                                    *)

MaxTagWords == 3          \* words of a tag given to extract_allergens
MaxCatalog == 3           \* rows of the catalog
MaxQuantitySteps == 1     \* the largest quantity entered, in QuantityUnit
MaxPad == 1               \* spaces typed around a name
MaxLines == 2             \* lines of a recipe given to lines 487-503
MaxAggSteps == 3          \* the largest quantity of such a line, in QuantityUnit

\* value=100.0 of the quantity input: quantities are multiples of it
QuantityUnit == 100

-----------------------------------------------------------------------------
(* Strings.                                                                *)

\* The float NaN pandas puts where a CSV cell is empty: no code point.
NaN == <<-1>>

isna(x) == x = NaN

\* str.lower() on the Latin and Cyrillic capitals.
LowerChar(c) ==
    IF c \in 65..90 THEN c + 32
    ELSE IF c \in 1040..1071 THEN c + 32
    ELSE IF c \in 1024..1039 THEN c + 80
    ELSE c

lower(s) == [i \in 1..Len(s) |-> LowerChar(s[i])]

\* sub in s
Contains(s, sub) ==
    \E i \in 0..(Len(s) - Len(sub)) :
        \A j \in 1..Len(sub) : s[i + j] = sub[j]

\* The characters str.isspace() accepts, which str.strip() removes.
WhiteSpace ==
    {9, 10, 11, 12, 13, 28, 29, 30, 31, 32, 133, 160, 5760, 8232, 8233,
     8239, 8287, 12288} \cup 8192..8202

RECURSIVE lstrip(_)
lstrip(s) ==
    IF s = <<>> THEN <<>>
    ELSE IF Head(s) \in WhiteSpace THEN lstrip(Tail(s))
    ELSE s

RECURSIVE rstrip(_)
rstrip(s) ==
    IF s = <<>> THEN <<>>
    ELSE IF s[Len(s)] \in WhiteSpace THEN rstrip(SubSeq(s, 1, Len(s) - 1))
    ELSE s

strip(s) == rstrip(lstrip(s))

\* Lexicographic order of two strings by code point, as Python compares str.
RECURSIVE StrLess(_, _)
StrLess(a, b) ==
    IF b = <<>> THEN FALSE
    ELSE IF a = <<>> THEN TRUE
    ELSE IF Head(a) # Head(b) THEN Head(a) < Head(b)
    ELSE StrLess(Tail(a), Tail(b))

-----------------------------------------------------------------------------
(* extract_allergens                                                       *)

\* '#аллерген'
AllergenMarker == <<35, 1072, 1083, 1083, 1077, 1088, 1075, 1077, 1085>>

\* 'лактоза', 'молочн'
t_lactose == <<1083, 1072, 1082, 1090, 1086, 1079, 1072>>
t_milk == <<1084, 1086, 1083, 1086, 1095, 1085>>
\* 'глютен', 'пшениц'
t_gluten == <<1075, 1083, 1102, 1090, 1077, 1085>>
t_wheat == <<1087, 1096, 1077, 1085, 1080, 1094>>
\* 'яй', 'яиц'
t_egg1 == <<1103, 1081>>
t_egg2 == <<1103, 1080, 1094>>
\* 'орех'
t_nut == <<1086, 1088, 1077, 1093>>
\* 'арахис'
t_peanut == <<1072, 1088, 1072, 1093, 1080, 1089>>
\* 'сое', 'соев', 'соя'
t_soy1 == <<1089, 1086, 1077>>
t_soy2 == <<1089, 1086, 1077, 1074>>
t_soy3 == <<1089, 1086, 1103>>

\* 'молоко и продукты его переработки (включая лактозу)'
L_milk ==
    <<1084, 1086, 1083, 1086, 1082, 1086, 32, 1080, 32, 1087, 1088, 1086,
      1076, 1091, 1082, 1090, 1099, 32, 1077, 1075, 1086, 32, 1087, 1077,
      1088, 1077, 1088, 1072, 1073, 1086, 1090, 1082, 1080, 32, 40, 1074,
      1082, 1083, 1102, 1095, 1072, 1103, 32, 1083, 1072, 1082, 1090, 1086,
      1079, 1091, 41>>
\* 'злаки, содержащие глютен (пшеница, рожь, ячмень, овес)'
L_gluten ==
    <<1079, 1083, 1072, 1082, 1080, 44, 32, 1089, 1086, 1076, 1077, 1088,
      1078, 1072, 1097, 1080, 1077, 32, 1075, 1083, 1102, 1090, 1077, 1085,
      32, 40, 1087, 1096, 1077, 1085, 1080, 1094, 1072, 44, 32, 1088, 1086,
      1078, 1100, 44, 32, 1103, 1095, 1084, 1077, 1085, 1100, 44, 32, 1086,
      1074, 1077, 1089, 41>>
\* 'яйца и продукты их переработки'
L_egg ==
    <<1103, 1081, 1094, 1072, 32, 1080, 32, 1087, 1088, 1086, 1076, 1091,
      1082, 1090, 1099, 32, 1080, 1093, 32, 1087, 1077, 1088, 1077, 1088,
      1072, 1073, 1086, 1090, 1082, 1080>>
\* 'орехи и продукты их переработки'
L_nut ==
    <<1086, 1088, 1077, 1093, 1080, 32, 1080, 32, 1087, 1088, 1086, 1076,
      1091, 1082, 1090, 1099, 32, 1080, 1093, 32, 1087, 1077, 1088, 1077,
      1088, 1072, 1073, 1086, 1090, 1082, 1080>>
\* 'арахис и продукты его переработки'
L_peanut ==
    <<1072, 1088, 1072, 1093, 1080, 1089, 32, 1080, 32, 1087, 1088, 1086,
      1076, 1091, 1082, 1090, 1099, 32, 1077, 1075, 1086, 32, 1087, 1077,
      1088, 1077, 1088, 1072, 1073, 1086, 1090, 1082, 1080>>
\* 'соя и продукты ее переработки'
L_soy ==
    <<1089, 1086, 1103, 32, 1080, 32, 1087, 1088, 1086, 1076, 1091, 1082,
      1090, 1099, 32, 1077, 1077, 32, 1087, 1077, 1088, 1077, 1088, 1072,
      1073, 1086, 1090, 1082, 1080>>

\* allergens.append(label) when cond holds
AppendIf(list, cond, label) == IF cond THEN Append(list, label) ELSE list

\* The chain with elif in place of the second and later if: the first
\* category found ends the search.
matched_labels_elif(tag_lower) ==
    LET has(sub) == Contains(tag_lower, sub)
    IN  IF has(t_lactose) \/ has(t_milk) THEN <<L_milk>>
        ELSE IF has(t_gluten) \/ has(t_wheat) THEN <<L_gluten>>
        ELSE IF has(t_egg1) \/ has(t_egg2) THEN <<L_egg>>
        ELSE IF has(t_nut) THEN <<L_nut>>
        ELSE IF has(t_peanut) THEN <<L_peanut>>
        ELSE IF has(t_soy1) \/ has(t_soy2) \/ has(t_soy3) THEN <<L_soy>>
        ELSE <<>>

\* The six if statements of lines 54-65, in their order.
matched_labels(tag_lower) ==
    LET has(sub) == Contains(tag_lower, sub)
        a1 == AppendIf(<<>>, has(t_lactose) \/ has(t_milk), L_milk)
        a2 == AppendIf(a1, has(t_gluten) \/ has(t_wheat), L_gluten)
        a3 == AppendIf(a2, has(t_egg1) \/ has(t_egg2), L_egg)
        a4 == AppendIf(a3, has(t_nut), L_nut)
        a5 == AppendIf(a4, has(t_peanut), L_peanut)
    IN  AppendIf(a5, has(t_soy1) \/ has(t_soy2) \/ has(t_soy3), L_soy)

\* extract_allergens without the test for the marker.
extract_allergens_unmarked(t) ==
    IF isna(t) \/ t = <<>> THEN <<>> ELSE matched_labels(lower(t))

extract_allergens(t) ==
    IF isna(t) \/ t = <<>> THEN <<>>
    ELSE
        LET tag_lower == lower(t)
        IN  IF Contains(tag_lower, AllergenMarker)
            THEN matched_labels(tag_lower)
            ELSE <<>>

-----------------------------------------------------------------------------
(* The catalog: load_ingredients / save_ingredients.                       *)

\* Strings pandas.read_csv reads as NaN: the empty cell and 'NA'.
NaStrings == {<<>>, <<78, 65>>}

\* A string cell written by DataFrame.to_csv and read back by read_csv.
CsvCell(s) == IF isna(s) \/ s \in NaStrings THEN NaN ELSE s

\* One row through to_csv and read_csv; the numbers come back unchanged.
CsvRow(r) == [r EXCEPT !.name = CsvCell(r.name), !.tag = CsvCell(r.tag)]

\* save_ingredients(df), then load_ingredients() of the next script run.
save_ingredients(df) == [i \in 1..Len(df) |-> CsvRow(df[i])]

\* ingredients_db['Ингредиент'].values
NameValues(df) == {df[i].name : i \in 1..Len(df)}

\* ingredients_db[ingredients_db['Ингредиент'] == selected].iloc[0]
Lookup(df, selected) ==
    df[CHOOSE i \in 1..Len(df) :
          /\ df[i].name = selected
          /\ \A j \in 1..(i - 1) : df[j].name # selected]

\* The options of the selectbox: the names that contain the search query,
\* case-insensitively, NaN names left out (na=False), in catalog order.
RECURSIVE FilterNames(_, _)
FilterNames(df, query) ==
    IF df = <<>> THEN <<>>
    ELSE LET n == Head(df).name
             rest == FilterNames(Tail(df), query)
         IN  IF ~isna(n) /\ Contains(lower(n), lower(query))
             THEN <<n>> \o rest ELSE rest

-----------------------------------------------------------------------------
(* What a script run computes from the recipe (lines 487-569).             *)

\* sum(xs) of a list of numbers
RECURSIVE sum(_)
sum(xs) == IF xs = <<>> THEN 0 ELSE Head(xs) + sum(Tail(xs))

total_weight(r) == sum([i \in 1..Len(r) |-> r[i].quantity])

\* The script raises ZeroDivisionError at line 542 and stops there.
ZeroDivisionError == <<"ZeroDivisionError">>

\* (item['quantity'] / total_weight) * 100, exact
percentage(item, tw) ==
    IF tw = 0 THEN ZeroDivisionError ELSE <<item.quantity * 100, tw>>

\* The quotient n/d rounded to a whole number, ties to the even one.
RoundHalfEven(n, d) ==
    LET q == n \div d
        r == n % d
    IN  IF 2 * r < d THEN q
        ELSE IF 2 * r > d THEN q + 1
        ELSE IF q % 2 = 0 THEN q ELSE q + 1

\* The decimal digits of a natural number.
RECURSIVE Digits(_)
Digits(n) == IF n < 10 THEN <<48 + n>> ELSE Digits(n \div 10) \o <<48 + (n % 10)>>

\* f"{percentage:.1f}" of the quotient p = <<n, d>>
FormatOneDecimal(p) ==
    LET tenths == RoundHalfEven(p[1] * 10, p[2])
    IN  Digits(tenths \div 10) \o <<46>> \o Digits(tenths % 10)

\* A sort that is not stable: item goes before the lines of equal quantity.
RECURSIVE InsertDesc_unstable(_, _)
InsertDesc_unstable(sorted, item) ==
    IF sorted = <<>> THEN <<item>>
    ELSE IF Head(sorted).quantity > item.quantity
         THEN <<Head(sorted)>> \o InsertDesc_unstable(Tail(sorted), item)
         ELSE <<item>> \o sorted

\* One step of the stable descending sort: item goes behind every line whose
\* quantity is not smaller.
RECURSIVE InsertDesc(_, _)
InsertDesc(sorted, item) ==
    IF sorted = <<>> THEN <<item>>
    ELSE IF Head(sorted).quantity >= item.quantity
         THEN <<Head(sorted)>> \o InsertDesc(Tail(sorted), item)
         ELSE <<item>> \o sorted

\* sorted(recipe, key=lambda x: x['quantity'], reverse=True)
RECURSIVE sorted_recipe(_)
sorted_recipe(r) ==
    IF r = <<>> THEN <<>>
    ELSE InsertDesc(sorted_recipe(SubSeq(r, 1, Len(r) - 1)), r[Len(r)])

\* f"{item['name']} ({percentage:.1f}%)"
CompositionEntry(item, tw) ==
    item.name \o <<32, 40>> \o FormatOneDecimal(percentage(item, tw))
        \o <<37, 41>>

\* composition_list; ZeroDivisionError when the first percentage raises
composition_list(r) ==
    IF r # <<>> /\ total_weight(r) = 0 THEN ZeroDivisionError
    ELSE LET s == sorted_recipe(r)
         IN  [i \in 1..Len(s) |-> CompositionEntry(s[i], total_weight(r))]

\* ", ".join(parts)
RECURSIVE Join(_, _)
Join(parts, sep) ==
    IF parts = <<>> THEN <<>>
    ELSE IF Len(parts) = 1 THEN parts[1]
    ELSE parts[1] \o sep \o Join(Tail(parts), sep)

\* composition_text = ", ".join(composition_list) + "."
composition_text(r) == Join(composition_list(r), <<44, 32>>) \o <<46>>

\* set(allergens): the labels of one list
LabelSet(list) == {list[k] : k \in 1..Len(list)}

\* all_allergens: the set the loop of lines 557-559 builds
all_allergens(r) ==
    UNION {LabelSet(extract_allergens(r[i].tag)) : i \in 1..Len(r)}

\* The set walked from the largest string to the smallest.
RECURSIVE SortedStrings_descending(_)
SortedStrings_descending(S) ==
    IF S = {} THEN <<>>
    ELSE LET m == CHOOSE x \in S : \A y \in S \ {x} : StrLess(y, x)
         IN  <<m>> \o SortedStrings_descending(S \ {m})

\* sorted(S) of a set of strings
RECURSIVE SortedStrings(_)
SortedStrings(S) ==
    IF S = {} THEN <<>>
    ELSE LET m == CHOOSE x \in S : \A y \in S \ {x} : StrLess(x, y)
         IN  <<m>> \o SortedStrings(S \ {m})

\* 'Аллергены не обнаружены'
NoAllergensText == 
    <<1040, 1083, 1083, 1077, 1088, 1075, 1077, 1085, 1099, 32, 1085,
     1077, 32, 1086, 1073, 1085, 1072, 1088, 1091, 1078, 1077, 1085, 1099>>

\* f"- {allergen}\n" for each allergen of the sorted list, concatenated
RECURSIVE BulletList(_)
BulletList(list) ==
    IF list = <<>> THEN <<>>
    ELSE <<45, 32>> \o Head(list) \o <<10>> \o BulletList(Tail(list))

\* sorted(all_allergens), the list the loop of lines 564-566 walks
allergen_list(r) == SortedStrings(all_allergens(r))

allergens_text(r) ==
    LET found == all_allergens(r)
    IN  IF found # {} THEN BulletList(SortedStrings(found))
        ELSE NoAllergensText

\* total_protein, total_fat, total_carbs, total_calories: sum of F * q / 100
total_protein(r) == <<sum([i \in 1..Len(r) |-> r[i].protein * r[i].quantity]), 100>>
total_fat(r) == <<sum([i \in 1..Len(r) |-> r[i].fat * r[i].quantity]), 100>>
total_carbs(r) == <<sum([i \in 1..Len(r) |-> r[i].carbs * r[i].quantity]), 100>>
total_calories(r) == <<sum([i \in 1..Len(r) |-> r[i].calories * r[i].quantity]), 100>>

\* total_cost: sum of cost * q / 1000
total_cost(r) == <<sum([i \in 1..Len(r) |-> r[i].cost * r[i].quantity]), 1000>>

RECURSIVE Gcd(_, _)
Gcd(a, b) == IF b = 0 THEN a ELSE Gcd(b, a % b)

\* The quotient n/d in lowest terms (d > 0).
Quotient(n, d) == IF n = 0 THEN <<0, 1>> ELSE <<n \div Gcd(n, d), d \div Gcd(n, d)>>

\* (total / total_weight) * scale without the test of total_weight: the
\* division raises when the weight is 0.
PerWeight_unguarded(total, r, scale) ==
    IF total_weight(r) = 0 THEN ZeroDivisionError
    ELSE LET t == Quotient(total[1], total[2] * total_weight(r))
         IN  Quotient(t[1] * scale, t[2])

\* (total / total_weight) * scale if total_weight > 0 else 0
PerWeight(total, r, scale) ==
    IF total_weight(r) > 0
    THEN LET t == Quotient(total[1], total[2] * total_weight(r))
         IN  Quotient(t[1] * scale, t[2])
    ELSE <<0, 1>>

cost_per_kg(r) == PerWeight(total_cost(r), r, 1000)
protein_per_100g(r) == PerWeight(total_protein(r), r, 100)
fat_per_100g(r) == PerWeight(total_fat(r), r, 100)
carbs_per_100g(r) == PerWeight(total_carbs(r), r, 100)
calories_per_100g(r) == PerWeight(total_calories(r), r, 100)

\* Every value lines 487-503 assign, for the recipe r.
aggregate(r) ==
    [total_weight |-> total_weight(r),
     total_protein |-> total_protein(r),
     total_fat |-> total_fat(r),
     total_carbs |-> total_carbs(r),
     total_calories |-> total_calories(r),
     total_cost |-> total_cost(r),
     cost_per_kg |-> cost_per_kg(r),
     protein_per_100g |-> protein_per_100g(r),
     fat_per_100g |-> fat_per_100g(r),
     carbs_per_100g |-> carbs_per_100g(r),
     calories_per_100g |-> calories_per_100g(r)]

\* round(x, 2) and round(x, 1), as a count of hundredths and of tenths
round2(p) == RoundHalfEven(p[1] * 100, p[2])
round1(p) == RoundHalfEven(p[1] * 10, p[2])

\* The script run stops at line 542 with ZeroDivisionError, before the
\* allergens and before the save and clear buttons are drawn.
RunRaises(r) == r # <<>> /\ total_weight(r) = 0

\* The run reaches the save and clear buttons (lines 574-624).
ButtonsDrawn(r) == Len(r) > 0 /\ ~RunRaises(r)

\* recipe_data of the save handler
recipe_data(r) ==
    LET s == sorted_recipe(r)
    IN  [i \in 1..Len(s) |->
            [ingredient |-> s[i].name, quantity_g |-> s[i].quantity]]

\* calculations of the save handler
calculations(r) ==
    [total_weight_g |-> total_weight(r),
     protein_g |-> round2(protein_per_100g(r)),
     fat_g |-> round2(fat_per_100g(r)),
     carbs_g |-> round2(carbs_per_100g(r)),
     calories_kcal |-> round1(calories_per_100g(r)),
     cost_recipe |-> round2(total_cost(r)),
     cost_per_kg |-> round2(cost_per_kg(r)),
     composition |-> composition_text(r),
     allergens |-> allergens_text(r)]

\* No recipe_data, calculations or PDF were built in this run.
NoRecord == <<>>

-----------------------------------------------------------------------------
(* Inputs.                                                                 *)

\* 'Мука', 'Сахар', 'Халва'
n_flour == <<1052, 1091, 1082, 1072>>
n_sugar == <<1057, 1072, 1093, 1072, 1088>>
n_halva == <<1061, 1072, 1083, 1074, 1072>>

\* The catalog ingredients_v2.csv holds when the session starts.
BaseCatalog ==
    <<[name |-> n_flour, protein |-> 10, fat |-> 1, carbs |-> 70,
       calories |-> 330, cost |-> 40,
       \* '#Аллерген, Глютен'
       tag |-> <<35, 1040, 1083, 1083, 1077, 1088, 1075, 1077, 1085, 44,
                32, 1043, 1083, 1102, 1090, 1077, 1085>>],
      [name |-> n_sugar, protein |-> 0, fat |-> 0, carbs |-> 100,
       calories |-> 400, cost |-> 60, tag |-> NaN]>>

\* Strings of at most n spaces.
Pads(n) == {[i \in 1..k |-> 32] : k \in 0..n}

\* Names typed into the new-ingredient form: nothing, a catalog name, a new
\* name or 'NA', each with up to MaxPad spaces before and after.
NameInputs ==
    {l \o w \o r : l \in Pads(MaxPad), r \in Pads(MaxPad),
                   w \in {<<>>, n_flour, n_sugar, n_halva, <<78, 65>>}}

\* Values of the protein, fat, carbs and calories number_inputs
\* (min_value=0.0) in the runs of SpecCatalog.
NumberInputs == {0, 1}

\* ' #аллерген арахис, глютен '
PeanutTag ==
    <<32, 35, 1072, 1083, 1083, 1077, 1088, 1075, 1077, 1085, 32, 1072,
      1088, 1072, 1093, 1080, 1089, 44, 32, 1075, 1083, 1102, 1090, 1077,
      1085, 32>>

\* Tags typed into the form in the runs of SpecCatalog: '' and PeanutTag
FormTags == {<<>>, PeanutTag}

\* Names typed into the form in the runs of Spec: ' ', ' Мука', 'Халва'
FormNames == {<<32>>, <<32>> \o n_flour, n_halva}

\* Protein, fat, carbs, calories and cost typed in the runs of Spec.
FormNumbers == {<<0, 0, 0, 0, 0>>, <<36, 17, 30, 364, 90>>}

\* Texts of the search box: '', 'а', 'ХА'
SearchInputs == {<<>>, <<1072>>, <<1061, 1040>>}

\* Values of the quantity number_input: min_value=0.0 and up.
QuantityInputs == {k * QuantityUnit : k \in 0..MaxQuantitySteps}

\* Texts of the recipe name box: '', '  ', 'Торт'
RecipeNameInputs == {<<>>, <<32, 32>>, <<1058, 1086, 1088, 1090>>}

-----------------------------------------------------------------------------
(* The handlers.  Every handler is one script run; what a run shows and    *)
(* builds (msg, record) is gone at the start of the next run.              *)

\* extract_allergens has not been called.
NotCalled == <<NaN>>

\* Lines 487-503 have not been run.
NotComputed == <<>>

Init ==
    /\ ingredients_db = BaseCatalog
    /\ recipe = <<>>
    /\ show_new_ingredient_form = FALSE
    /\ recipe_name = <<>>
    /\ msg = "none"
    /\ record = NoRecord
    /\ tag = NaN
    /\ allergens = NotCalled
    /\ totals = NotComputed

\* The sidebar button (lines 304-305).
ToggleForm ==
    /\ show_new_ingredient_form' = ~show_new_ingredient_form
    /\ msg' = "none"
    /\ record' = NoRecord
    /\ UNCHANGED <<ingredients_db, recipe, recipe_name, tag, allergens, totals>>

\* The cancel button of the form (lines 342-344).
CancelForm ==
    /\ show_new_ingredient_form
    /\ show_new_ingredient_form' = FALSE
    /\ msg' = "none"
    /\ record' = NoRecord
    /\ UNCHANGED <<ingredients_db, recipe, recipe_name, tag, allergens, totals>>

\* The check of lines 350-355: the list of errors is not empty.
FormErrors(new_name, new_protein, new_fat, new_carbs, new_calories) ==
    \/ new_name = <<>> \/ strip(new_name) = <<>>
    \/ new_protein = 0 /\ new_fat = 0 /\ new_carbs = 0 /\ new_calories = 0

\* new_name in ingredients_db['Ингредиент'].values
NameExists(df, new_name) == new_name \in NameValues(df) \ {NaN}

\* The row of lines 367-378.
new_ingredient(new_name, new_protein, new_fat, new_carbs, new_calories, new_cost, new_tag) ==
    [name |-> strip(new_name), protein |-> new_protein, fat |-> new_fat,
     carbs |-> new_carbs, calories |-> new_calories, cost |-> new_cost,
     tag |-> strip(new_tag)]

\* The submit button of the form (lines 346-386).
SubmitIngredient(new_name, new_protein, new_fat, new_carbs, new_calories, new_cost, new_tag) ==
    /\ show_new_ingredient_form
    /\ record' = NoRecord
    /\ UNCHANGED <<recipe, recipe_name, tag, allergens, totals>>
    /\ IF FormErrors(new_name, new_protein, new_fat, new_carbs, new_calories)
       THEN /\ msg' = "error: required fields"
            /\ UNCHANGED <<ingredients_db, show_new_ingredient_form>>
       ELSE IF NameExists(ingredients_db, new_name)
       THEN /\ msg' = "warning: ingredient exists"
            /\ UNCHANGED <<ingredients_db, show_new_ingredient_form>>
       ELSE /\ Len(ingredients_db) < MaxCatalog
            /\ ingredients_db' =
                   save_ingredients(Append(ingredients_db,
                       new_ingredient(new_name, new_protein, new_fat,
                                      new_carbs, new_calories, new_cost,
                                      new_tag)))
            /\ msg' = "success: ingredient added"
            /\ show_new_ingredient_form' = FALSE

\* Typing into the recipe name box (line 393).
SetRecipeName(text) ==
    /\ recipe_name' = text
    /\ msg' = "none"
    /\ record' = NoRecord
    /\ UNCHANGED <<ingredients_db, recipe, show_new_ingredient_form, tag,
                   allergens, totals>>

\* The line of lines 446-455.
recipe_line(df, selected_ingredient, quantity) ==
    LET ingredient_data == Lookup(df, selected_ingredient)
    IN  [name |-> selected_ingredient, quantity |-> quantity,
         protein |-> ingredient_data.protein, fat |-> ingredient_data.fat,
         carbs |-> ingredient_data.carbs,
         calories |-> ingredient_data.calories,
         cost |-> ingredient_data.cost, tag |-> ingredient_data.tag]

\* The check of line 435 left out: nothing is ever found.
existing_never(r, selected_ingredient) == FALSE

\* existing of line 435 is not empty
existing(r, selected_ingredient) ==
    \E i \in 1..Len(r) : r[i].name = selected_ingredient

\* The handler with the warning branch replaced by an update: the line of
\* that name takes the quantity entered.
AddToRecipe_merge(search_query, k, quantity) ==
    LET filtered_ingredients == FilterNames(ingredients_db, search_query)
    IN  /\ search_query # <<>>
        /\ k \in 1..Len(filtered_ingredients)
        /\ record' = NoRecord
        /\ UNCHANGED <<ingredients_db, show_new_ingredient_form,
                       recipe_name, tag, allergens, totals>>
        /\ IF existing(recipe, filtered_ingredients[k])
           THEN /\ msg' = "warning: already in recipe"
                /\ recipe' =
                       [i \in 1..Len(recipe) |->
                           IF recipe[i].name = filtered_ingredients[k]
                           THEN [recipe[i] EXCEPT !.quantity = quantity]
                           ELSE recipe[i]]
           ELSE /\ recipe' =
                       Append(recipe,
                              recipe_line(ingredients_db,
                                          filtered_ingredients[k], quantity))
                /\ msg' = "success: added to recipe"

\* The add-to-recipe button (lines 408-457), drawn when the search finds
\* something; k is the option picked in the selectbox.
AddToRecipe(search_query, k, quantity) ==
    LET filtered_ingredients == FilterNames(ingredients_db, search_query)
    IN  /\ search_query # <<>>
        /\ k \in 1..Len(filtered_ingredients)
        /\ record' = NoRecord
        /\ UNCHANGED <<ingredients_db, show_new_ingredient_form,
                       recipe_name, tag, allergens, totals>>
        /\ IF existing(recipe, filtered_ingredients[k])
           THEN /\ msg' = "warning: already in recipe"
                /\ UNCHANGED recipe
           ELSE /\ recipe' =
                       Append(recipe,
                              recipe_line(ingredients_db,
                                          filtered_ingredients[k], quantity))
                /\ msg' = "success: added to recipe"

\* del recipe[idx:] in place of recipe.pop(idx): the chosen line and every
\* line after it go.
pop_tail(r, i) == SubSeq(r, 1, i - 1)

\* recipe.pop(idx) with the 0-based idx = i - 1
pop(r, i) == SubSeq(r, 1, i - 1) \o SubSeq(r, i + 1, Len(r))

\* The delete button of line i (lines 468-480).
DeleteLine(i) ==
    /\ i \in 1..Len(recipe)
    /\ recipe' = pop(recipe, i)
    /\ msg' = "none"
    /\ record' = NoRecord
    /\ UNCHANGED <<ingredients_db, show_new_ingredient_form, recipe_name,
                   tag, allergens, totals>>

\* The test without strip(): only the empty name is missing.
NameMissing_unstripped(text) == text = <<>>

\* not recipe_name or recipe_name.strip() == ""
NameMissing(text) == text = <<>> \/ strip(text) = <<>>

\* The save button (lines 577-619).
SaveRecipe ==
    /\ ButtonsDrawn(recipe)
    /\ UNCHANGED <<ingredients_db, recipe, show_new_ingredient_form,
                   recipe_name, tag, allergens, totals>>
    /\ IF NameMissing(recipe_name)
       THEN /\ msg' = "error: recipe name"
            /\ record' = NoRecord
       ELSE /\ record' =
                   <<recipe_name, recipe_data(recipe), calculations(recipe)>>
            /\ msg' = "success: recipe ready"

\* The clear button (lines 622-624).
ClearRecipe ==
    /\ ButtonsDrawn(recipe)
    /\ recipe' = <<>>
    /\ msg' = "none"
    /\ record' = NoRecord
    /\ UNCHANGED <<ingredients_db, show_new_ingredient_form, recipe_name,
                   tag, allergens, totals>>

Next ==
    \/ ToggleForm
    \/ CancelForm
    \/ \E n \in FormNames, v \in FormNumbers :
           SubmitIngredient(n, v[1], v[2], v[3], v[4], v[5], PeanutTag)
    \/ \E text \in RecipeNameInputs : SetRecipeName(text)
    \/ \E q \in SearchInputs, k \in 1..MaxCatalog, g \in QuantityInputs :
           AddToRecipe(q, k, g)
    \/ \E i \in 1..MaxCatalog : DeleteLine(i)
    \/ SaveRecipe
    \/ ClearRecipe

Spec == Init /\ [][Next]_vars

-----------------------------------------------------------------------------
(* The catalog form alone, with every field of the form drawn freely.      *)

NextCatalog ==
    \/ ToggleForm
    \/ CancelForm
    \/ \E n \in NameInputs, p \in NumberInputs, f \in NumberInputs,
          c \in NumberInputs, k \in NumberInputs, t \in FormTags :
           SubmitIngredient(n, p, f, c, k, 90, t)

SpecCatalog == Init /\ [][NextCatalog]_vars

-----------------------------------------------------------------------------
(* extract_allergens applied to tags made of words.                        *)

\* '#аллерген', '#АЛЛЕРГЕН', 'аллерген', 'Молочный', 'лактоза', 'глютен', 'Пшеница',
\* 'яйцо', 'яиц', 'орехи', 'арахис', 'соевый', 'соя', 'шоколад'
TagWords ==
    {<<35, 1072, 1083, 1083, 1077, 1088, 1075, 1077, 1085>>,
     <<35, 1040, 1051, 1051, 1045, 1056, 1043, 1045, 1053>>,
     <<1072, 1083, 1083, 1077, 1088, 1075, 1077, 1085>>,
     <<1052, 1086, 1083, 1086, 1095, 1085, 1099, 1081>>,
     <<1083, 1072, 1082, 1090, 1086, 1079, 1072>>,
     <<1075, 1083, 1102, 1090, 1077, 1085>>,
     <<1055, 1096, 1077, 1085, 1080, 1094, 1072>>,
     <<1103, 1081, 1094, 1086>>,
     <<1103, 1080, 1094>>,
     <<1086, 1088, 1077, 1093, 1080>>,
     <<1072, 1088, 1072, 1093, 1080, 1089>>,
     <<1089, 1086, 1077, 1074, 1099, 1081>>,
     <<1089, 1086, 1103>>,
     <<1096, 1086, 1082, 1086, 1083, 1072, 1076>>}

\* The tags of at most MaxTagWords words, one space between two words, and
\* the missing tag.
ClassifyInputs ==
    {NaN} \cup
    UNION {{Join(ws, <<32>>) : ws \in [1..n -> TagWords]} : n \in 0..MaxTagWords}

InitClassify ==
    /\ ingredients_db = BaseCatalog
    /\ recipe = <<>>
    /\ show_new_ingredient_form = FALSE
    /\ recipe_name = <<>>
    /\ msg = "none"
    /\ record = NoRecord
    /\ tag \in ClassifyInputs
    /\ allergens = NotCalled
    /\ totals = NotComputed

\* allergens = extract_allergens(tag)
Classify ==
    /\ allergens = NotCalled
    /\ allergens' = extract_allergens(tag)
    /\ UNCHANGED <<ingredients_db, recipe, show_new_ingredient_form,
                   recipe_name, msg, record, tag, totals>>

NextClassify == Classify

SpecClassify == InitClassify /\ [][NextClassify]_vars

-----------------------------------------------------------------------------
(* Lines 487-503 applied to sequences of recipe lines.                     *)

\* The catalog the lines are taken from: 'Мука', 'Сахар' and 'Халва'.
AggregateCatalog ==
    save_ingredients(Append(BaseCatalog,
        new_ingredient(n_halva, 36, 17, 30, 364, 90, PeanutTag)))

\* The lines add-to-recipe makes of a row of that catalog, with a quantity
\* of 0 to MaxAggSteps units.
AggregateLines ==
    {recipe_line(AggregateCatalog, AggregateCatalog[k].name, q * QuantityUnit) :
        k \in 1..Len(AggregateCatalog), q \in 0..MaxAggSteps}

\* The sequences of at most MaxLines such lines.
AggregateInputs == UNION {[1..n -> AggregateLines] : n \in 0..MaxLines}

InitAggregate ==
    /\ ingredients_db = AggregateCatalog
    /\ recipe \in AggregateInputs
    /\ show_new_ingredient_form = FALSE
    /\ recipe_name = <<>>
    /\ msg = "none"
    /\ record = NoRecord
    /\ tag = NaN
    /\ allergens = NotCalled
    /\ totals = NotComputed

\* Lines 487-503 run on the recipe.
Aggregate ==
    /\ totals = NotComputed
    /\ totals' = aggregate(recipe)
    /\ UNCHANGED <<ingredients_db, recipe, show_new_ingredient_form,
                   recipe_name, msg, record, tag, allergens>>

NextAggregate == Aggregate

SpecAggregate == InitAggregate /\ [][NextAggregate]_vars

-----------------------------------------------------------------------------
(* Properties.                                                             *)

\* A string is blank: it is empty or holds white space only.
IsBlank(s) == \A i \in 1..Len(s) : s[i] \in WhiteSpace

\* No two lines of the recipe r name the same ingredient.
OneLinePerName(r) ==
    \A i \in 1..Len(r), j \in 1..Len(r) : i # j => r[i].name # r[j].name

\* An add-to-recipe step ended with the warning, or added a line.
AddStepSound ==
    /\ msg' = "warning: already in recipe" => recipe' = recipe
    /\ msg' = "success: added to recipe" =>
           /\ Len(recipe') = Len(recipe) + 1
           /\ SubSeq(recipe', 1, Len(recipe)) = recipe
           /\ \A i \in 1..Len(recipe) :
                  recipe[i].name # recipe'[Len(recipe')].name

\* C1: after any sequence of add-to-recipe, remove-line and clear-recipe
\* steps the recipe holds at most one line per ingredient name; an
\* add-to-recipe for a name already in the recipe ends with the warning and
\* leaves the recipe as it was, and a step that adds a line adds one whose
\* name was not in the recipe.
C1_OneLinePerIngredient ==
    [](OneLinePerName(recipe)) /\ [][AddStepSound]_vars

\* A duplicate add was attempted on a recipe of two lines and was rejected.
C1_Witness ==
    /\ msg = "warning: already in recipe"
    /\ Len(recipe) = 2

\* C2: every name of the catalog is a non-empty string and no two rows of
\* the catalog have the same name.
C2_CatalogNamesUnique ==
    /\ \A i \in 1..Len(ingredients_db) :
           ~isna(ingredients_db[i].name) /\ ingredients_db[i].name # <<>>
    /\ \A i \in 1..Len(ingredients_db), j \in 1..Len(ingredients_db) :
           i # j => ingredients_db[i].name # ingredients_db[j].name

\* C3: every line of the recipe has a quantity strictly greater than 0.
C3_QuantityPositive ==
    \A i \in 1..Len(recipe) : recipe[i].quantity > 0

\* C4: whenever the composition is computed (the recipe is not empty) the
\* total weight is greater than 0, so no percentage divides by zero.
C4_TotalWeightPositive ==
    Len(recipe) > 0 => total_weight(recipe) > 0 /\ ~RunRaises(recipe)

\* A save step ended in the error or in a record.
SaveStepKeepsRecipe ==
    msg' \in {"error: recipe name", "success: recipe ready"} =>
        recipe' = recipe

\* Where the state stands after a save: a record exists only with a name
\* that is not blank, and a blank name gives the error and no record.
SaveOutcome ==
    /\ record # NoRecord =>
           ~IsBlank(recipe_name) /\ msg = "success: recipe ready"
    /\ msg = "success: recipe ready" => record # NoRecord
    /\ msg = "error: recipe name" =>
           IsBlank(recipe_name) /\ record = NoRecord

\* C5: saving with a recipe name that is empty or white space only ends in
\* the error, builds no record and leaves the recipe unchanged; a record is
\* built only when the name is not blank.
C5_BlankNameNoRecord ==
    [](SaveOutcome) /\ [][SaveStepKeepsRecipe]_vars

\* Save was pressed with a name of spaces only on a recipe with lines.
C5_Witness ==
    /\ msg = "error: recipe name"
    /\ recipe_name # <<>>
    /\ IsBlank(recipe_name)
    /\ Len(recipe) > 0
    /\ record = NoRecord

\* The six categories: the label and the trigger substrings of each.
Categories ==
    <<[label |-> L_milk, triggers |-> {t_lactose, t_milk}],
      [label |-> L_gluten, triggers |-> {t_gluten, t_wheat}],
      [label |-> L_egg, triggers |-> {t_egg1, t_egg2}],
      [label |-> L_nut, triggers |-> {t_nut}],
      [label |-> L_peanut, triggers |-> {t_peanut}],
      [label |-> L_soy, triggers |-> {t_soy1, t_soy2, t_soy3}]>>

\* The tag t holds the marker, whatever the case of its letters.
HasMarker(t) == ~isna(t) /\ Contains(lower(t), AllergenMarker)

\* Some trigger of the category c is in the lower-cased tag t.
Triggered(c, t) == \E sub \in Categories[c].triggers : Contains(lower(t), sub)

\* How many times x occurs in the list.
Count(list, x) == Cardinality({i \in 1..Len(list) : list[i] = x})

\* C6: extract_allergens returns nothing for a tag that is missing, empty or
\* without the marker, whatever triggers it holds.
C6_NoMarkerNoAllergens ==
    (allergens # NotCalled /\ (isna(tag) \/ tag = <<>> \/ ~HasMarker(tag)))
        => allergens = <<>>

\* A tag with a trigger and no marker was classified, and gave nothing.
C6_Witness ==
    /\ ~isna(tag)
    /\ ~HasMarker(tag)
    /\ \E c \in 1..Len(Categories) : Triggered(c, tag)
    /\ allergens = <<>>

\* C7: for a tag that holds the marker, the result holds the label of each
\* category exactly once when one of its triggers is in the lower-cased
\* tag and not at all when none is, and holds nothing else.
C7_OneLabelPerCategory ==
    (allergens # NotCalled /\ HasMarker(tag)) =>
        /\ \A c \in 1..Len(Categories) :
               Count(allergens, Categories[c].label) =
                   IF Triggered(c, tag) THEN 1 ELSE 0
        /\ \A i \in 1..Len(allergens) :
               \E c \in 1..Len(Categories) : allergens[i] = Categories[c].label

\* A tag with the marker and the triggers of two categories gave two labels.
C7_Witness ==
    /\ HasMarker(tag)
    /\ Cardinality({c \in 1..Len(Categories) : Triggered(c, tag)}) = 2
    /\ Len(allergens) = 2

\* The recipes with the lines of r in another order.
Reorderings(r) ==
    {[i \in 1..Len(r) |-> r[p[i]]] :
        p \in {q \in [1..Len(r) -> 1..Len(r)] :
                  \A i, j \in 1..Len(r) : i # j => q[i] # q[j]}}

\* The lists extract_allergens gives for the tags of the lines of r.
LineLabels(r) == [i \in 1..Len(r) |-> extract_allergens(r[i].tag)]

\* The label x is in one of the lists.
InSomeList(lists, x) == \E i \in 1..Len(lists) : Count(lists[i], x) > 0

\* C8: in a run that reaches the allergen section, the disclosure lists a
\* label once when the tag of some line yields it and not at all
\* otherwise, in ascending order of the strings; it is the same for every
\* order of the lines; and the text is the 'none found' sentence exactly
\* when no line yields a label.
C8_AllergenDisclosure ==
    ButtonsDrawn(recipe) =>
        LET list == allergen_list(recipe)
            text == allergens_text(recipe)
            lists == LineLabels(recipe)
        IN  /\ \A c \in 1..Len(Categories) :
                   Count(list, Categories[c].label) =
                       IF InSomeList(lists, Categories[c].label)
                       THEN 1 ELSE 0
            /\ \A i \in 1..Len(list) : InSomeList(lists, list[i])
            /\ \A i \in 1..(Len(list) - 1) : StrLess(list[i], list[i + 1])
            /\ \A r \in Reorderings(recipe) :
                   allergens_text(r) = text
            /\ text = NoAllergensText <=> list = <<>>
            /\ list # <<>> => text = BulletList(list)

\* The first line yields two labels, which the disclosure lists the other
\* way round, and a later line yields one of them again.
C8_Witness ==
    /\ ButtonsDrawn(recipe)
    /\ Len(recipe) >= 2
    /\ Len(extract_allergens(recipe[1].tag)) = 2
    /\ Len(allergen_list(recipe)) = 2
    /\ allergen_list(recipe)[1] = extract_allergens(recipe[1].tag)[2]
    /\ \E i \in 2..Len(recipe) : Len(extract_allergens(recipe[i].tag)) = 1

\* The place of the line named n in the recipe r.
PlaceOf(r, n) == CHOOSE i \in 1..Len(r) : r[i].name = n

\* The string s begins with the string pre.
StartsWith(s, pre) == Len(pre) <= Len(s) /\ SubSeq(s, 1, Len(pre)) = pre

\* C9: the sorted recipe, which the composition follows entry by entry,
\* holds every line of the recipe once, in non-increasing order of
\* quantity, and two lines of equal quantity in the order in which they
\* were put into the recipe.
C9_CompositionOrder ==
    LET s == sorted_recipe(recipe)
        list == composition_list(recipe)
    IN  /\ Len(s) = Len(recipe)
        /\ \A i \in 1..Len(recipe) : Count(s, recipe[i]) = 1
        /\ \A i \in 1..(Len(s) - 1) : s[i].quantity >= s[i + 1].quantity
        /\ \A i \in 1..Len(s), j \in 1..Len(s) :
               (i < j /\ s[i].quantity = s[j].quantity) =>
                   PlaceOf(recipe, s[i].name) < PlaceOf(recipe, s[j].name)
        /\ ButtonsDrawn(recipe) =>
               /\ Len(list) = Len(s)
               /\ \A i \in 1..Len(s) :
                      StartsWith(list[i], s[i].name \o <<32, 40>>)

\* Three lines: the first is the lightest and the other two weigh the same.
C9_Witness ==
    /\ ButtonsDrawn(recipe)
    /\ Len(recipe) = 3
    /\ recipe[1].quantity < recipe[2].quantity
    /\ recipe[2].quantity = recipe[3].quantity

\* The percentages of the lines of r sum to 100: no division by zero, and
\* the sum of the quotients quantity * 100 / total_weight is 100.
PercentagesSumTo100(r) ==
    /\ total_weight(r) # 0
    /\ sum([i \in 1..Len(r) |-> percentage(r[i], total_weight(r))[1]]) =
           100 * total_weight(r)

\* C10: for every recipe that is not empty the percentages of the
\* composition sum to 100.
C10_PercentagesSum ==
    Len(recipe) > 0 => PercentagesSumTo100(recipe)

\* The sum over the lines of r of field * quantity.
RECURSIVE WeightedSum(_, _)
WeightedSum(r, field) ==
    IF r = <<>> THEN 0
    ELSE Head(r)[field] * Head(r).quantity + WeightedSum(Tail(r), field)

\* The sum of the quantities of the lines of r.
RECURSIVE QuantitySum(_)
QuantitySum(r) ==
    IF r = <<>> THEN 0 ELSE Head(r).quantity + QuantitySum(Tail(r))

\* Two quotients are the same number.
SameRatio(a, b) == a[1] * b[2] = b[1] * a[2]

\* The totals t are those of the recipe r: every total is the sum over the
\* lines, and the per-kg and per-100g values are the totals over the weight.
TotalsOf(t, r) ==
    LET w == QuantitySum(r)
        Per100(field) == <<WeightedSum(r, field) * 100, 100 * w>>
    IN  /\ t.total_weight = w
        /\ SameRatio(t.total_protein, <<WeightedSum(r, "protein"), 100>>)
        /\ SameRatio(t.total_fat, <<WeightedSum(r, "fat"), 100>>)
        /\ SameRatio(t.total_carbs, <<WeightedSum(r, "carbs"), 100>>)
        /\ SameRatio(t.total_calories, <<WeightedSum(r, "calories"), 100>>)
        /\ SameRatio(t.total_cost, <<WeightedSum(r, "cost"), 1000>>)
        /\ w > 0 =>
               /\ SameRatio(t.cost_per_kg,
                            <<WeightedSum(r, "cost") * 1000, 1000 * w>>)
               /\ SameRatio(t.protein_per_100g, Per100("protein"))
               /\ SameRatio(t.fat_per_100g, Per100("fat"))
               /\ SameRatio(t.carbs_per_100g, Per100("carbs"))
               /\ SameRatio(t.calories_per_100g, Per100("calories"))
        /\ w = 0 =>
               /\ t.cost_per_kg = <<0, 1>>
               /\ t.protein_per_100g = <<0, 1>>
               /\ t.fat_per_100g = <<0, 1>>
               /\ t.carbs_per_100g = <<0, 1>>
               /\ t.calories_per_100g = <<0, 1>>

\* r is 300 g of an ingredient at 40 per kg with 70 g of carbs per 100 g,
\* then 200 g of one at 60 per kg with 100 g of carbs per 100 g.
FlourAndSugar(r) ==
    /\ Len(r) = 2
    /\ r[1].quantity = 300 /\ r[1].cost = 40 /\ r[1].carbs = 70
    /\ r[2].quantity = 200 /\ r[2].cost = 60 /\ r[2].carbs = 100

\* C11: for every sequence of recipe lines the total weight is the sum of
\* the quantities, every total is the sum of field * quantity / 100 (cost:
\* / 1000), the cost per kg is total cost / weight * 1000 and every per-100g
\* value is total / weight * 100 when the weight is positive; when the
\* weight is 0, the empty sequence included, the five are 0 and none is a
\* ZeroDivisionError.  300 g of flour and 200 g of sugar give 500 g, a cost
\* of 24, 48 per kg and 82 g of carbs per 100 g.
C11_AggregateTotals ==
    totals # NotComputed =>
        /\ TotalsOf(totals, recipe)
        /\ \A f \in {"cost_per_kg", "protein_per_100g", "fat_per_100g",
                      "carbs_per_100g", "calories_per_100g"} :
               totals[f] # ZeroDivisionError
        /\ FlourAndSugar(recipe) =>
               /\ totals.total_weight = 500
               /\ SameRatio(totals.total_cost, <<24, 1>>)
               /\ totals.cost_per_kg = <<48, 1>>
               /\ totals.carbs_per_100g = <<82, 1>>

\* The totals of 300 g of flour and 200 g of sugar were computed.
C11_Witness ==
    /\ totals # NotComputed
    /\ FlourAndSugar(recipe)
    /\ totals.cost_per_kg = <<48, 1>>

\* Every line of the recipe after the step whose name was in the recipe
\* before it is the line of before, quantity and snapshot alike.
LinesKept ==
    \A i \in 1..Len(recipe'), j \in 1..Len(recipe) :
        recipe'[i].name = recipe[j].name => recipe'[i] = recipe[j]

\* The line l holds the values of the first row of the catalog df that has
\* its name.
SnapshotOf(l, df) ==
    \E k \in 1..Len(df) :
        /\ df[k].name = l.name
        /\ \A j \in 1..(k - 1) : df[j].name # l.name
        /\ l.protein = df[k].protein /\ l.fat = df[k].fat
        /\ l.carbs = df[k].carbs /\ l.calories = df[k].calories
        /\ l.cost = df[k].cost /\ l.tag = df[k].tag

\* A step that added a line added the snapshot of the catalog record.
AddSnapshots ==
    msg' = "success: added to recipe" =>
        SnapshotOf(recipe'[Len(recipe')], ingredients_db)

\* C12: the snapshot of a recipe line (protein, fat, carbs, calories, cost,
\* tag) is taken from the catalog record of its name when the line is added,
\* and no step (adding an ingredient to the catalog with its reload, adding
\* or removing other lines, export) changes the quantity or the snapshot of
\* a line that stays in the recipe.
C12_SnapshotFixed == [][LinesKept /\ AddSnapshots]_vars

\* An ingredient named as a line of the recipe was just added to the
\* catalog with other values, and the line holds the values it was added
\* with.
C12_Witness ==
    /\ msg = "success: ingredient added"
    /\ \E i \in 1..Len(recipe) :
           /\ recipe[i].name = ingredients_db[Len(ingredients_db)].name
           /\ recipe[i].protein # ingredients_db[Len(ingredients_db)].protein
           /\ recipe[i].protein = ingredients_db[1].protein

\* s is r without its i-th line, the other lines in the order of r.
Without(s, r, i) ==
    /\ Len(s) = Len(r) - 1
    /\ \A j \in 1..Len(s) : s[j] = IF j < i THEN r[j] ELSE r[j + 1]

\* An export that succeeded left the recipe as it was.
ExportKeeps == msg' = "success: recipe ready" => recipe' = recipe

\* A clear-recipe step leaves the recipe empty.
ClearEmpties == ClearRecipe => recipe' = <<>>

\* A remove step of line i leaves the recipe without that line.
RemoveTakesOne ==
    \A i \in 1..Len(recipe) : DeleteLine(i) => Without(recipe', recipe, i)

\* A step after which a line of the recipe is gone is a remove step or a
\* clear-recipe step.
OnlyRemoveAndClearTake ==
    (\E j \in 1..Len(recipe) :
         \A i \in 1..Len(recipe') : recipe'[i] # recipe[j]) =>
        \/ ClearRecipe
        \/ \E i \in 1..Len(recipe) : DeleteLine(i)

\* C13: a successful export leaves the recipe as it was, same lines in the
\* same order; clear-recipe leaves it empty; the per-line remove takes out
\* the chosen line and keeps the others in order; and no other operation
\* ever removes a line.
C13_ExportKeepsClearEmpties ==
    [][ExportKeeps /\ ClearEmpties /\ RemoveTakesOne
         /\ OnlyRemoveAndClearTake]_vars

\* A recipe of two lines was exported: the record lists two lines and the
\* recipe still holds them.
C13_Witness ==
    /\ msg = "success: recipe ready"
    /\ Len(recipe) = 2
    /\ Len(record[2]) = 2

\* All four of protein, fat, carbs and calories are zero.
AllZero(p, f, c, k) == p = 0 /\ f = 0 /\ c = 0 /\ k = 0

\* What a submission of the name n and the values p, f, c, k must come to:
\* rejected with the catalog as it was when the name is blank or the four
\* values are zero, and added only with a name that is not blank, a value
\* that is not zero and a name no row of the catalog has.
SubmissionRule(n, p, f, c, k) ==
    /\ (IsBlank(n) \/ AllZero(p, f, c, k)) =>
           /\ msg' = "error: required fields"
           /\ ingredients_db' = ingredients_db
    /\ ingredients_db' # ingredients_db =>
           /\ ~IsBlank(n)
           /\ ~AllZero(p, f, c, k)
           /\ \A i \in 1..Len(ingredients_db) :
                  ingredients_db[i].name # strip(n)

\* C14: a submission of the add-ingredient form is rejected, and the
\* catalog is left as it was, whenever the name is empty or white space only
\* or protein, fat, carbs and calories are all zero; a submission is added
\* to the catalog only when the name is not blank, one of the four values is
\* not zero and the name is not already in the catalog.
C14_SubmissionValidated ==
    [][\A n \in NameInputs, p \in NumberInputs, f \in NumberInputs,
          c \in NumberInputs, k \in NumberInputs, t \in FormTags :
           SubmitIngredient(n, p, f, c, k, 90, t) =>
               SubmissionRule(n, p, f, c, k)]_vars

====
